---- MODULE Spec2Model ----
(***************************************************************************)
(* The /users API of the acquisitions service: the router's pipeline       *)
(* (authenticateToken, requireRole, the four controllers), the zod schemas *)
(* of users.validation.js, the record service of users.service.js and the  *)
(* users table it reads and writes.                                        *)
(*                                                                         *)
(* A request is one slot of `pc`.  The synchronous middleware and the      *)
(* controller up to its first store call are one step each; every awaited  *)
(* store statement (select, update, delete) is one step of its own, so     *)
(* requests in different slots interleave exactly at the store round trips.*)
(* A field of the request is chosen when the code first reads it.          *)
(***************************************************************************)
EXTENDS Integers, Sequences, FiniteSets, TLC

VARIABLES store, now, pc, req, loc, resp

vars == <<store, now, pc, req, loc, resp>>

(***************************************************************************)
(* Bounds of the model.                                                    *)
(***************************************************************************)
\* the wall clock new Date() reads runs over 0..MaxTime
MaxTime == 1

\* the request slots of the sequential and of the concurrent specification
SeqSlots == {"a"}
ConcSlots == {"a", "b"}
Slots == ConcSlots

\* ids of the rows the table holds initially
Ids == {1, 2}

Roles == {"user", "admin"}

(***************************************************************************)
(* Strings.  A name is abstracted to its shape: the number of leading      *)
(* whitespace characters, the length of the core (which neither starts nor *)
(* ends with whitespace) and the number of trailing whitespace characters. *)
(* An email is its leading and trailing whitespace, whether it has upper   *)
(* case letters, and its lower-cased core.                                 *)
(***************************************************************************)
NameStr(l, c, t) == [lead |-> l, core |-> c, trail |-> t]

StrLen(s) == s.lead + s.core + s.trail

\* String.prototype.trim
Trim(s) == [s EXCEPT !.lead = 0, !.trail = 0]

EmailStr(l, t, u, a) == [lead |-> l, trail |-> t, upper |-> u, addr |-> a]

\* lower-cased cores: three well-formed addresses and one that is no address
Addresses == {"foo@bar.com", "ann@x.io", "bob@x.io"}
AddrLen(a) == CASE a = "foo@bar.com" -> 11
                [] a = "ann@x.io" -> 8
                [] a = "bob@x.io" -> 8
                [] OTHER -> 4

EmailLen(e) == e.lead + AddrLen(e.addr) + e.trail

\* String.prototype.toLowerCase
ToLowerCase(e) == [e EXCEPT !.upper = FALSE]

TrimEmail(e) == [e EXCEPT !.lead = 0, !.trail = 0]

(***************************************************************************)
(* Optional values: a property of a JS object is absent (undefined) or     *)
(* holds one value.                                                        *)
(***************************************************************************)
Absent == <<>>
Some(v) == <<v>>
Has(o) == o # <<>>
Val(o) == o[1]

(***************************************************************************)
(* The users table (user.model.js).  A row carries every column; the       *)
(* password column is written by sign-up only and is never selected here.  *)
(***************************************************************************)
\* a name of 255 characters
InitName == NameStr(0, 255, 0)
InitEmail(i) == IF i = 1 THEN EmailStr(0, 0, FALSE, "ann@x.io")
                         ELSE EmailStr(0, 0, FALSE, "bob@x.io")

users(i, role) ==
    [id |-> i, name |-> InitName, email |-> InitEmail(i),
     password |-> "hash", role |-> role, created_at |-> 0, updated_at |-> 0]

\* a variant that selects without a column list: the whole row
SelectColumnsAll(row) == row

\* the columns a select or an update returns (users.service.js)
SelectColumns(row) ==
    [id |-> row.id, email |-> row.email, name |-> row.name, role |-> row.role,
     created_at |-> row.created_at, updated_at |-> row.updated_at]

\* the columns a delete returns
DeleteColumns(row) ==
    [id |-> row.id, email |-> row.email, name |-> row.name, role |-> row.role]

(***************************************************************************)
(* Number(string), as z.coerce.number() applies it to a path parameter.    *)
(* A number is kept as twice its value, so that 1.5 is the integer 3.      *)
(***************************************************************************)
JSNumber(s) ==
    CASE s = "1"   -> [nan |-> FALSE, twice |-> 2]
      [] s = "2"   -> [nan |-> FALSE, twice |-> 4]
      [] s = "0"   -> [nan |-> FALSE, twice |-> 0]
      [] s = "-1"  -> [nan |-> FALSE, twice |-> -2]
      [] s = "1.5" -> [nan |-> FALSE, twice |-> 3]
      [] OTHER     -> [nan |-> TRUE, twice |-> 0]

IsInteger(n) == n.twice % 2 = 0

Issue(f, m) == [field |-> f, message |-> m]

\* a variant without .positive()
userIdSchemaAnySign(params) ==
    LET n == JSNumber(params.id)
        issues ==
            IF n.nan
            THEN <<Issue("id", "Expected number, received nan")>>
            ELSE IF IsInteger(n) THEN <<>>
            ELSE <<Issue("id", "Expected integer, received float")>>
    IN  [success |-> issues = <<>>,
         data |-> [id |-> IF issues = <<>> THEN n.twice \div 2 ELSE 0],
         issues |-> issues]

\* z.object({ id: z.coerce.number().int().positive(...) })
userIdSchema(params) ==
    LET n == JSNumber(params.id)
        issues ==
            IF n.nan
            THEN <<Issue("id", "Expected number, received nan")>>
            ELSE (IF IsInteger(n) THEN <<>>
                  ELSE <<Issue("id", "Expected integer, received float")>>)
                 \o (IF n.twice > 0 THEN <<>>
                     ELSE <<Issue("id", "User ID must be a positive integer")>>)
    IN  [success |-> issues = <<>>,
         data |-> [id |-> IF issues = <<>> THEN n.twice \div 2 ELSE 0],
         issues |-> issues]

(***************************************************************************)
(* updateUserSchema.  The checks of a string run in the order they are     *)
(* chained, each on the value the previous ones left: min and max see the  *)
(* name before trim, email() and max see the email before toLowerCase and  *)
(* trim.  z.object drops the keys it does not know.                        *)
(***************************************************************************)
NameMin == 2
NameMax == 255
EmailMax == 255

\* name: z.string().min(2).max(255).trim().optional()
NameIssues(o) ==
    IF ~Has(o) THEN <<>>
    ELSE (IF StrLen(Val(o)) >= NameMin THEN <<>>
          ELSE <<Issue("name", "String must contain at least 2 character(s)")>>)
         \o (IF StrLen(Val(o)) <= NameMax THEN <<>>
             ELSE <<Issue("name", "String must contain at most 255 character(s)")>>)

NameData(o) == IF Has(o) THEN Some(Trim(Val(o))) ELSE Absent

\* the email pattern: no whitespace around the address, any letter case
IsEmail(e) == e.lead = 0 /\ e.trail = 0 /\ e.addr \in Addresses

\* email: z.string().email().max(255).toLowerCase().trim().optional()
EmailIssues(o) ==
    IF ~Has(o) THEN <<>>
    ELSE (IF IsEmail(Val(o)) THEN <<>>
          ELSE <<Issue("email", "Invalid email")>>)
         \o (IF EmailLen(Val(o)) <= EmailMax THEN <<>>
             ELSE <<Issue("email", "String must contain at most 255 character(s)")>>)

EmailData(o) == IF Has(o) THEN Some(TrimEmail(ToLowerCase(Val(o)))) ELSE Absent

\* a variant that takes any string: z.string().optional()
RoleIssuesAnyString(o) == <<>>

\* role: z.enum(['user', 'admin']).optional()
RoleIssues(o) ==
    IF ~Has(o) \/ Val(o) \in {"user", "admin"} THEN <<>>
    ELSE <<Issue("role", "Invalid enum value")>>

\* extra: whether the object still holds the keys the schema does not declare
NoUpdates == [name |-> Absent, email |-> Absent, role |-> Absent, extra |-> FALSE]

\* the refinement: Object.values(data).some(value => value !== undefined)
AtLeastOneField(data) ==
    Has(data.name) \/ Has(data.email) \/ Has(data.role) \/ data.extra

\* a variant without the refinement
updateUserSchemaUnrefined(body) ==
    LET issues == NameIssues(body.name) \o EmailIssues(body.email)
                  \o RoleIssues(body.role)
        data == [name |-> NameData(body.name), email |-> EmailData(body.email),
                 role |-> body.role, extra |-> FALSE]
    IN  [success |-> issues = <<>>,
         data |-> IF issues = <<>> THEN data ELSE NoUpdates,
         issues |-> issues]

\* a variant that keeps the keys it does not know: z.object(..).passthrough()
updateUserSchemaPassthrough(body) ==
    LET fieldIssues == NameIssues(body.name) \o EmailIssues(body.email)
                       \o RoleIssues(body.role)
        data == [name |-> NameData(body.name), email |-> EmailData(body.email),
                 role |-> body.role, extra |-> body.extra]
        issues ==
            IF fieldIssues # <<>> THEN fieldIssues
            ELSE IF AtLeastOneField(data) THEN <<>>
            ELSE <<Issue("", "At least one field must be provided for update")>>
    IN  [success |-> issues = <<>>,
         data |-> IF issues = <<>> THEN data ELSE NoUpdates,
         issues |-> issues]

\* a variant whose role has a default: z.enum(['user', 'admin']).default('user')
updateUserSchemaRoleDefault(body) ==
    LET fieldIssues == NameIssues(body.name) \o EmailIssues(body.email)
                       \o RoleIssues(body.role)
        data == [name |-> NameData(body.name), email |-> EmailData(body.email),
                 role |-> IF Has(body.role) THEN body.role ELSE Some("user"),
                 extra |-> FALSE]
        issues ==
            IF fieldIssues # <<>> THEN fieldIssues
            ELSE IF AtLeastOneField(data) THEN <<>>
            ELSE <<Issue("", "At least one field must be provided for update")>>
    IN  [success |-> issues = <<>>,
         data |-> IF issues = <<>> THEN data ELSE NoUpdates,
         issues |-> issues]

updateUserSchema(body) ==
    LET fieldIssues == NameIssues(body.name) \o EmailIssues(body.email)
                       \o RoleIssues(body.role)
        data == [name |-> NameData(body.name), email |-> EmailData(body.email),
                 role |-> body.role, extra |-> FALSE]
        issues ==
            IF fieldIssues # <<>> THEN fieldIssues
            ELSE IF AtLeastOneField(data) THEN <<>>
            ELSE <<Issue("", "At least one field must be provided for update")>>
    IN  [success |-> issues = <<>>,
         data |-> IF issues = <<>> THEN data ELSE NoUpdates,
         issues |-> issues]

\* formatValidationError: the messages of the issues, joined
formatValidationError(issues) ==
    [prefix |-> "Invalid input: ", joined |-> [i \in 1..Len(issues) |-> issues[i].message]]

(***************************************************************************)
(* Requests, tokens and responses.                                         *)
(***************************************************************************)
Routes == {"GET /", "GET /:id", "PUT /:id", "DELETE /:id"}

Claim(i, role) == [id |-> i, role |-> role]

\* the token cookie: none, one whose signature or expiry fails, or one signed
\* by the server for a claim
NoToken == [kind |-> "none", claim |-> Absent]
BadToken(k) == [kind |-> k, claim |-> Absent]
SignedToken(c) == [kind |-> "signed", claim |-> Some(c)]

NoResp ==
    [status |-> 0, error |-> "", message |-> "", details |-> Absent,
     user |-> Absent, users |-> Absent, count |-> 0]

Res(status, error, message) ==
    [NoResp EXCEPT !.status = status, !.error = error, !.message = message]

ValidationFailed(issues) ==
    [Res(400, "Validation failed", "")
        EXCEPT !.details = Some(formatValidationError(issues))]

NotFoundRes == Res(404, "User not found", "The requested user does not exist")

\* next(e): the application's error handler answers a failure it does not know
UnexpectedRes == Res(500, "Internal Server Error", "")

(***************************************************************************)
(* jwttoken.verify (utils/jwt.js): the decoded claim, or a throw.          *)
(***************************************************************************)
Verify(token) ==
    IF token.kind = "signed"
    THEN [ok |-> TRUE, decoded |-> token.claim]
    ELSE [ok |-> FALSE, decoded |-> Absent]

(***************************************************************************)
(* auth.middleware.js.  Each middleware gives whether it called next(),    *)
(* the response it sent otherwise, and (authenticateToken) req.user.       *)
(***************************************************************************)
\* a variant that attaches whatever the token carries without verifying it
authenticateTokenUnverified(token) ==
    IF token.kind = "none"
    THEN [next |-> FALSE, user |-> Absent,
          res |-> Res(401, "Access denied", "No token provided")]
    ELSE [next |-> TRUE, user |-> token.claim, res |-> NoResp]

authenticateToken(token) ==
    IF token.kind = "none"
    THEN [next |-> FALSE, user |-> Absent,
          res |-> Res(401, "Access denied", "No token provided")]
    ELSE IF Verify(token).ok
    THEN [next |-> TRUE, user |-> Verify(token).decoded, res |-> NoResp]
    ELSE [next |-> FALSE, user |-> Absent,
          res |-> Res(401, "Access denied", "Invalid token")]

\* a variant that tests roles.includes without the negation
requireRoleInverted(roles, user) ==
    IF ~Has(user)
    THEN [next |-> FALSE, res |-> Res(401, "Access denied", "Authentication required")]
    ELSE IF roles # {} /\ Val(user).role \in roles
    THEN [next |-> FALSE, res |-> Res(403, "Forbidden", "Insufficient permissions")]
    ELSE [next |-> TRUE, res |-> NoResp]

requireRole(roles, user) ==
    IF ~Has(user)
    THEN [next |-> FALSE, res |-> Res(401, "Access denied", "Authentication required")]
    ELSE IF roles # {} /\ Val(user).role \notin roles
    THEN [next |-> FALSE, res |-> Res(403, "Forbidden", "Insufficient permissions")]
    ELSE [next |-> TRUE, res |-> NoResp]

(***************************************************************************)
(* users.routes.js: the handlers of each route, in order.                  *)
(***************************************************************************)
Handler(fn, roles) == [fn |-> fn, roles |-> roles]

router(route) ==
    CASE route = "GET /" ->
            <<Handler("authenticateToken", {}), Handler("requireRole", {"admin"}),
              Handler("fetchAllUsers", {})>>
      [] route = "GET /:id" ->
            <<Handler("authenticateToken", {}), Handler("fetchUserById", {})>>
      [] route = "PUT /:id" ->
            <<Handler("authenticateToken", {}), Handler("updateUserById", {})>>
      [] route = "DELETE /:id" ->
            <<Handler("authenticateToken", {}), Handler("deleteUserById", {})>>

(***************************************************************************)
(* users.controller.js, each controller up to its first call of the record *)
(* service: the response it sends, or the call it makes.                   *)
(***************************************************************************)
Respond(res) == [call |-> FALSE, res |-> res, id |-> 0, updates |-> NoUpdates]
CallService(id, updates) == [call |-> TRUE, res |-> NoResp, id |-> id, updates |-> updates]

fetchUserById(params) ==
    LET validationResult == userIdSchema(params)
    IN  IF ~validationResult.success
        THEN Respond(ValidationFailed(validationResult.issues))
        ELSE CallService(validationResult.data.id, NoUpdates)

\* a variant without the ownership check
updateUserByIdAnyTarget(params, body, user) ==
    LET idValidation == userIdSchema(params)
        updateValidation == updateUserSchema(body)
        id == idValidation.data.id
        updates == updateValidation.data
    IN  IF ~idValidation.success
        THEN Respond(ValidationFailed(idValidation.issues))
        ELSE IF ~updateValidation.success
        THEN Respond(ValidationFailed(updateValidation.issues))
        ELSE IF Has(updates.role) /\ user.role # "admin"
        THEN Respond(Res(403, "Forbidden", "Only admin users can change user roles"))
        ELSE CallService(id, updates)

\* a variant without the role-change check
updateUserByIdAnyRole(params, body, user) ==
    LET idValidation == userIdSchema(params)
        updateValidation == updateUserSchema(body)
        id == idValidation.data.id
        updates == updateValidation.data
    IN  IF ~idValidation.success
        THEN Respond(ValidationFailed(idValidation.issues))
        ELSE IF ~updateValidation.success
        THEN Respond(ValidationFailed(updateValidation.issues))
        ELSE IF user.id # id /\ user.role # "admin"
        THEN Respond(Res(403, "Forbidden", "You can only update your own information"))
        ELSE CallService(id, updates)

\* a variant that checks the ownership before it validates the body
updateUserByIdOwnershipFirst(params, body, user) ==
    LET idValidation == userIdSchema(params)
        updateValidation == updateUserSchema(body)
        id == idValidation.data.id
        updates == updateValidation.data
    IN  IF ~idValidation.success
        THEN Respond(ValidationFailed(idValidation.issues))
        ELSE IF user.id # id /\ user.role # "admin"
        THEN Respond(Res(403, "Forbidden", "You can only update your own information"))
        ELSE IF ~updateValidation.success
        THEN Respond(ValidationFailed(updateValidation.issues))
        ELSE IF Has(updates.role) /\ user.role # "admin"
        THEN Respond(Res(403, "Forbidden", "Only admin users can change user roles"))
        ELSE CallService(id, updates)

updateUserById(params, body, user) ==
    LET idValidation == userIdSchema(params)
        updateValidation == updateUserSchema(body)
        id == idValidation.data.id
        updates == updateValidation.data
    IN  IF ~idValidation.success
        THEN Respond(ValidationFailed(idValidation.issues))
        ELSE IF ~updateValidation.success
        THEN Respond(ValidationFailed(updateValidation.issues))
        ELSE IF user.id # id /\ user.role # "admin"
        THEN Respond(Res(403, "Forbidden", "You can only update your own information"))
        ELSE IF Has(updates.role) /\ user.role # "admin"
        THEN Respond(Res(403, "Forbidden", "Only admin users can change user roles"))
        ELSE CallService(id, updates)

\* a variant whose ownership check joins its two tests with "or"
deleteUserByIdEither(params, user) ==
    LET validationResult == userIdSchema(params)
        id == validationResult.data.id
    IN  IF ~validationResult.success
        THEN Respond(ValidationFailed(validationResult.issues))
        ELSE IF user.id # id \/ user.role # "admin"
        THEN Respond(Res(403, "Forbidden", "You can only delete your own account"))
        ELSE CallService(id, NoUpdates)

\* a variant without the ownership check
deleteUserByIdAnyTarget(params, user) ==
    LET validationResult == userIdSchema(params)
        id == validationResult.data.id
    IN  IF ~validationResult.success
        THEN Respond(ValidationFailed(validationResult.issues))
        ELSE CallService(id, NoUpdates)

deleteUserById(params, user) ==
    LET validationResult == userIdSchema(params)
        id == validationResult.data.id
    IN  IF ~validationResult.success
        THEN Respond(ValidationFailed(validationResult.issues))
        ELSE IF user.id # id /\ user.role # "admin"
        THEN Respond(Res(403, "Forbidden", "You can only delete your own account"))
        ELSE CallService(id, NoUpdates)

\* the catch block of a controller
Catch(message) ==
    IF message = "User not found" THEN NotFoundRes ELSE UnexpectedRes

(***************************************************************************)
(* users.service.js: each statement the service sends to the store.        *)
(***************************************************************************)
\* select ... from users
getALLUsers(tbl) == {SelectColumns(row) : row \in tbl}

\* a result of the service: the error it throws ("" for none), or its value
Throw(message) == [error |-> message, user |-> Absent]
Return(user) == [error |-> "", user |-> user]

\* a variant that returns user[0] without testing user.length
getUserByIdUnchecked(tbl, id) ==
    LET rows == {row \in tbl : row.id = id}
    IN  IF rows = {} THEN Return(Absent)
        ELSE Return(Some(SelectColumns(CHOOSE row \in rows : TRUE)))

\* select ... from users where id = $id limit 1
getUserById(tbl, id) ==
    LET rows == {row \in tbl : row.id = id}
    IN  IF rows = {} THEN Throw("User not found")
        ELSE Return(Some(SelectColumns(CHOOSE row \in rows : TRUE)))

\* the keys a body with extra fields holds beside name, email and role
ExtraFields == [id |-> 3, password |-> "plain"]

\* { ...updates, updated_at: new Date() }
UpdateData(updates, date) == [updates |-> updates, updated_at |-> date]

\* a variant that leaves updated_at as it was
SetColumnsStale(row, updateData) ==
    [row EXCEPT
        !.name = IF Has(updateData.updates.name) THEN Val(updateData.updates.name) ELSE @,
        !.email = IF Has(updateData.updates.email) THEN Val(updateData.updates.email) ELSE @,
        !.role = IF Has(updateData.updates.role) THEN Val(updateData.updates.role) ELSE @]

\* a variant that refreshes updated_at only when a column changes
SetColumnsIfChanged(row, updateData) ==
    LET set == SetColumnsStale(row, updateData)
    IN  IF set = row THEN row
        ELSE [set EXCEPT !.updated_at = updateData.updated_at]

\* set(updateData) writes every key of updateData that names a column
SetColumns(row, updateData) ==
    [row EXCEPT
        !.name = IF Has(updateData.updates.name) THEN Val(updateData.updates.name) ELSE @,
        !.email = IF Has(updateData.updates.email) THEN Val(updateData.updates.email) ELSE @,
        !.role = IF Has(updateData.updates.role) THEN Val(updateData.updates.role) ELSE @,
        !.id = IF updateData.updates.extra THEN ExtraFields.id ELSE @,
        !.password = IF updateData.updates.extra THEN ExtraFields.password ELSE @,
        !.updated_at = updateData.updated_at]

\* update users set ... where id = $id returning ...: the statement fails when
\* it would give two rows one email (the column is unique)
updateUser(tbl, id, updateData) ==
    LET after == {IF row.id = id THEN SetColumns(row, updateData) ELSE row : row \in tbl}
        returned == {SelectColumns(row) : row \in {t \in after : t.id = id}}
        clash == \E x \in after, y \in after : x.id # y.id /\ x.email = y.email
    IN  IF clash
        THEN [error |-> "duplicate key value violates unique constraint",
              tbl |-> tbl, first |-> Absent]
        ELSE [error |-> "", tbl |-> after,
              first |-> IF returned = {} THEN Absent
                        ELSE Some(CHOOSE row \in returned : TRUE)]

\* a variant that returns the row and leaves it in the table
deleteUserKeepsRow(tbl, id) ==
    LET rows == {row \in tbl : row.id = id}
    IN  [tbl |-> tbl,
         first |-> IF rows = {} THEN Absent
                   ELSE Some(DeleteColumns(CHOOSE row \in rows : TRUE))]

\* delete from users where id = $id returning ...
deleteUser(tbl, id) ==
    LET rows == {row \in tbl : row.id = id}
    IN  [tbl |-> tbl \ rows,
         first |-> IF rows = {} THEN Absent
                   ELSE Some(DeleteColumns(CHOOSE row \in rows : TRUE))]

(***************************************************************************)
(* The inputs a request is drawn from.                                     *)
(***************************************************************************)
Claims == {Claim(i, role) : i \in Ids, role \in Roles}

Tokens == {NoToken, BadToken("forged"), BadToken("expired")}
          \cup {SignedToken(c) : c \in Claims}

Params == {"abc", "1.5", "0", "-1", "1", "2"}

Body(name, email, role, extra) ==
    [name |-> name, email |-> email, role |-> role, extra |-> extra]

\* no name, "X", "Al", " a ", and a name of 256 characters
BodyNames == {Absent, Some(NameStr(0, 1, 0)), Some(NameStr(0, 2, 0)),
              Some(NameStr(1, 1, 1)), Some(NameStr(0, NameMax + 1, 0))}

\* no email, "Foo@Bar.COM", "  Foo@Bar.COM " and "bob@x.io" (the email of row 2)
BodyEmails == {Absent, Some(EmailStr(0, 0, TRUE, "foo@bar.com")),
               Some(EmailStr(2, 1, TRUE, "foo@bar.com")),
               Some(EmailStr(0, 0, FALSE, "bob@x.io"))}

BodyRoles == {Absent, Some("user"), Some("admin"), Some("root")}

\* every combination of the three fields, and two bodies that also carry
\* fields the schema does not know (id, password)
Bodies == {Body(n, e, ro, FALSE) : n \in BodyNames, e \in BodyEmails, ro \in BodyRoles}
          \cup {Body(Absent, Absent, Absent, TRUE),
                Body(Some(NameStr(0, 2, 0)), Absent, Absent, TRUE)}

Inputs(tokens, params, bodies) ==
    [tokens |-> tokens, params |-> params, bodies |-> bodies]

AllInputs == Inputs(Tokens, Params, Bodies)

(***************************************************************************)
(* State.                                                                  *)
(***************************************************************************)
NoReq == [route |-> "", token |-> NoToken, params |-> Absent, body |-> Absent,
          user |-> Absent]

NoLoc == [idx |-> 0, id |-> 0, updates |-> NoUpdates, updated_at |-> 0]

Init ==
    /\ store = {users(1, "user"), users(2, "admin")}
    /\ now = 0
    /\ pc = [r \in Slots |-> "idle"]
    /\ req = [r \in Slots |-> NoReq]
    /\ loc = [r \in Slots |-> NoLoc]
    /\ resp = [r \in Slots |-> NoResp]

\* the handler the router runs next for the request in slot r
Current(r) == router(req[r].route)[loc[r].idx]

Running(r, fn) == pc[r] = "chain" /\ Current(r).fn = fn

\* res.status(..).json(..): the request is answered
Send(r, res) ==
    /\ pc' = [pc EXCEPT ![r] = "done"]
    /\ resp' = [resp EXCEPT ![r] = res]

\* a request arrives with its cookies
Receive(r, in) ==
    /\ pc[r] = "idle"
    /\ \E route \in Routes, token \in in.tokens :
          req' = [req EXCEPT ![r] = [NoReq EXCEPT !.route = route, !.token = token]]
    /\ pc' = [pc EXCEPT ![r] = "chain"]
    /\ loc' = [loc EXCEPT ![r] = [NoLoc EXCEPT !.idx = 1]]
    /\ UNCHANGED <<store, now, resp>>

StepAuthenticateToken(r) ==
    /\ Running(r, "authenticateToken")
    /\ LET m == authenticateToken(req[r].token)
       IN  IF m.next
           THEN /\ req' = [req EXCEPT ![r].user = m.user]
                /\ loc' = [loc EXCEPT ![r].idx = @ + 1]
                /\ UNCHANGED <<pc, resp>>
           ELSE /\ Send(r, m.res)
                /\ UNCHANGED <<req, loc>>
    /\ UNCHANGED <<store, now>>

StepRequireRole(r) ==
    /\ Running(r, "requireRole")
    /\ LET m == requireRole(Current(r).roles, req[r].user)
       IN  IF m.next
           THEN /\ loc' = [loc EXCEPT ![r].idx = @ + 1]
                /\ UNCHANGED <<pc, resp>>
           ELSE /\ Send(r, m.res)
                /\ UNCHANGED loc
    /\ UNCHANGED <<store, now, req>>

\* a controller has answered, or waits for the store
Outcome(r, out, await) ==
    IF out.call
    THEN /\ pc' = [pc EXCEPT ![r] = await]
         /\ loc' = [loc EXCEPT ![r].id = out.id, ![r].updates = out.updates]
         /\ UNCHANGED resp
    ELSE /\ Send(r, out.res)
         /\ UNCHANGED loc

StepFetchAllUsers(r) ==
    /\ Running(r, "fetchAllUsers")
    /\ pc' = [pc EXCEPT ![r] = "getALLUsers"]
    /\ UNCHANGED <<store, now, req, loc, resp>>

StepFetchUserById(r, in) ==
    /\ Running(r, "fetchUserById")
    /\ \E p \in in.params :
          /\ req' = [req EXCEPT ![r].params = Some([id |-> p])]
          /\ Outcome(r, fetchUserById([id |-> p]), "getUserById")
    /\ UNCHANGED <<store, now>>

StepUpdateUserById(r, in) ==
    /\ Running(r, "updateUserById")
    /\ \E p \in in.params :
          IF ~userIdSchema([id |-> p]).success
          THEN /\ req' = [req EXCEPT ![r].params = Some([id |-> p])]
               /\ Outcome(r, updateUserById([id |-> p], Body(Absent, Absent, Absent, FALSE),
                                             Val(req[r].user)), "getUserById")
          ELSE \E b \in in.bodies :
               /\ req' = [req EXCEPT ![r].params = Some([id |-> p]), ![r].body = Some(b)]
               /\ Outcome(r, updateUserById([id |-> p], b, Val(req[r].user)), "getUserById")
    /\ UNCHANGED <<store, now>>

StepDeleteUserById(r, in) ==
    /\ Running(r, "deleteUserById")
    /\ \E p \in in.params :
          /\ req' = [req EXCEPT ![r].params = Some([id |-> p])]
          /\ Outcome(r, deleteUserById([id |-> p], Val(req[r].user)), "getUserById")
    /\ UNCHANGED <<store, now>>

\* the select of getALLUsers returns
StoreGetALLUsers(r) ==
    /\ pc[r] = "getALLUsers"
    /\ LET allUsers == getALLUsers(store)
       IN  Send(r, [Res(200, "", "Successful retrieved users")
                       EXCEPT !.users = Some(allUsers), !.count = Cardinality(allUsers)])
    /\ UNCHANGED <<store, now, req, loc>>

\* the select of getUserById returns; updateUser then builds updateData and
\* sends its update, deleteUser sends its delete
StoreGetUserById(r) ==
    /\ pc[r] = "getUserById"
    /\ LET got == getUserById(store, loc[r].id)
       IN  IF got.error # ""
           THEN Send(r, Catch(got.error)) /\ UNCHANGED loc
           ELSE CASE req[r].route = "GET /:id" ->
                       /\ Send(r, [Res(200, "", "User retrieved successfully")
                                      EXCEPT !.user = got.user])
                       /\ UNCHANGED loc
                  [] req[r].route = "PUT /:id" ->
                       /\ pc' = [pc EXCEPT ![r] = "update"]
                       /\ loc' = [loc EXCEPT ![r].updated_at = now]
                       /\ UNCHANGED resp
                  [] req[r].route = "DELETE /:id" ->
                       /\ pc' = [pc EXCEPT ![r] = "delete"]
                       /\ UNCHANGED <<loc, resp>>
    /\ UNCHANGED <<store, now, req>>

\* the update of updateUser returns
StoreUpdate(r) ==
    /\ pc[r] = "update"
    /\ LET out == updateUser(store, loc[r].id,
                             UpdateData(loc[r].updates, loc[r].updated_at))
       IN  IF out.error # ""
           THEN Send(r, Catch(out.error)) /\ UNCHANGED store
           ELSE /\ store' = out.tbl
                /\ Send(r, [Res(200, "", "User updated successfully")
                               EXCEPT !.user = out.first])
    /\ UNCHANGED <<now, req, loc>>

\* a variant of deleteUser that sends its delete before its existence check:
\* the row is removed and the check then throws 'User not found'
StoreDeleteThenCheck(r) ==
    /\ pc[r] = "delete"
    /\ LET out == deleteUser(store, loc[r].id)
       IN  /\ store' = out.tbl
           /\ Send(r, Catch(getUserById(out.tbl, loc[r].id).error))
    /\ UNCHANGED <<now, req, loc>>

\* the delete of deleteUser returns
StoreDelete(r) ==
    /\ pc[r] = "delete"
    /\ LET out == deleteUser(store, loc[r].id)
       IN  /\ store' = out.tbl
           /\ Send(r, [Res(200, "", "User deleted successfully")
                          EXCEPT !.user = out.first])
    /\ UNCHANGED <<now, req, loc>>

\* the response has been delivered; the slot is free again
Finish(r) ==
    /\ pc[r] = "done"
    /\ pc' = [pc EXCEPT ![r] = "idle"]
    /\ req' = [req EXCEPT ![r] = NoReq]
    /\ loc' = [loc EXCEPT ![r] = NoLoc]
    /\ resp' = [resp EXCEPT ![r] = NoResp]
    /\ UNCHANGED <<store, now>>

\* the clock new Date() reads moves on
Tick ==
    /\ now < MaxTime
    /\ now' = now + 1
    /\ UNCHANGED <<store, pc, req, loc, resp>>

Step(r, in) ==
    \/ Receive(r, in)
    \/ StepAuthenticateToken(r)
    \/ StepRequireRole(r)
    \/ StepFetchAllUsers(r)
    \/ StepFetchUserById(r, in)
    \/ StepUpdateUserById(r, in)
    \/ StepDeleteUserById(r, in)
    \/ StoreGetALLUsers(r)
    \/ StoreGetUserById(r)
    \/ StoreUpdate(r)
    \/ StoreDelete(r)
    \/ Finish(r)

\* one request at a time, drawn from all inputs
Next == Tick \/ \E r \in SeqSlots : Step(r, AllInputs)

Spec == Init /\ [][Next]_vars

\* the requests on record 1 that pass validation: the token of its owner, of
\* another identity of role user and of an admin, the path parameter "1", and
\* bodies with one field each
ConcInputs ==
    Inputs({SignedToken(Claim(1, "user")), SignedToken(Claim(2, "user")),
            SignedToken(Claim(2, "admin"))},
           {"1"},
           {Body(Some(NameStr(0, 2, 0)), Absent, Absent, FALSE),
            Body(Absent, Some(EmailStr(0, 0, TRUE, "foo@bar.com")), Absent, FALSE),
            Body(Absent, Absent, Some("admin"), FALSE)})

\* two requests in flight, interleaved at their store round trips
NextConc == Tick \/ \E r \in ConcSlots : Step(r, ConcInputs)

SpecConc == Init /\ [][NextConc]_vars

(***************************************************************************)
(* Vocabulary of the properties.                                           *)
(***************************************************************************)
Answered(r) == pc[r] = "done"

\* the request waits for a statement of the record service
InService(r) == pc[r] \in {"getALLUsers", "getUserById", "update", "delete"}

\* the request is still before its first handler
AtFirstHandler(r) == pc[r] = "chain" /\ loc[r].idx = 1

\* a controller has read the path parameter / the body
ParamRead(r) == Has(req[r].params)
BodyRead(r) == Has(req[r].body)

\* the path parameter denotes a positive integer
TargetOk(r) ==
    /\ ParamRead(r)
    /\ LET n == JSNumber(Val(req[r].params).id)
       IN  ~n.nan /\ n.twice % 2 = 0 /\ n.twice > 0

Target(r) == JSNumber(Val(req[r].params).id).twice \div 2

ById(r) == req[r].route \in {"GET /:id", "PUT /:id", "DELETE /:id"}

\* the identity of the request is neither the target nor an admin
Stranger(r) ==
    /\ Has(req[r].user) /\ TargetOk(r)
    /\ Val(req[r].user).id # Target(r)
    /\ Val(req[r].user).role # "admin"

Is(res, status, error, message) ==
    res.status = status /\ res.error = error /\ res.message = message

(***************************************************************************)
(* C1.  On every /users route nothing runs behind authenticateToken unless *)
(* the token cookie verifies: without a token the answer is 401 'Access    *)
(* denied / No token provided', with a token that fails verification it is *)
(* 401 'Access denied / Invalid token', and only a verified token gets its *)
(* decoded claim attached and the next handler (and later the store) run.  *)
(***************************************************************************)
C1_AuthenticationGate ==
    \A r \in Slots :
        pc[r] # "idle" =>
            /\ req[r].route \in Routes
            /\ router(req[r].route)[1].fn = "authenticateToken"
            /\ req[r].token.kind = "none" =>
                  \/ AtFirstHandler(r)
                  \/ /\ Answered(r) /\ loc[r].idx = 1
                     /\ Is(resp[r], 401, "Access denied", "No token provided")
            /\ req[r].token.kind \notin {"none", "signed"} =>
                  \/ AtFirstHandler(r)
                  \/ /\ Answered(r) /\ loc[r].idx = 1
                     /\ Is(resp[r], 401, "Access denied", "Invalid token")
            /\ (loc[r].idx > 1 \/ InService(r) \/ ParamRead(r) \/ Has(req[r].user)) =>
                  /\ req[r].token.kind = "signed"
                  /\ req[r].user = req[r].token.claim
            /\ req[r].token.kind # "signed" => ~Has(req[r].user) /\ ~ParamRead(r)

C1_Witness ==
    \E r \in Slots :
        /\ Answered(r) /\ req[r].route = "DELETE /:id"
        /\ req[r].token.kind = "forged"
        /\ Is(resp[r], 401, "Access denied", "Invalid token")

\* requireRole on every allowed-role set and every claim
C2_Guard ==
    \A R \in SUBSET (Roles \cup {"guest"}), role \in Roles \cup {"guest"}, i \in Ids :
        LET some == requireRole(R, Some(Claim(i, role)))
            none == requireRole(R, Absent)
        IN  /\ some.next <=> (R = {} \/ role \in R)
            /\ ~some.next => Is(some.res, 403, "Forbidden", "Insufficient permissions")
            /\ ~none.next /\ none.res.status = 401

(***************************************************************************)
(* C2.  requireRole(R) calls next() exactly when a claim is attached and   *)
(* R is empty or holds the claim's role; without a claim it answers 401,   *)
(* with a role outside a non-empty R 403 'Forbidden / Insufficient         *)
(* permissions'.  GET /users is guarded by R = {admin}: an authenticated   *)
(* identity that is no admin gets 403 there and the list is never queried. *)
(***************************************************************************)
C2_RequireRole ==
    /\ C2_Guard
    /\ \A r \in Slots :
          (req[r].route = "GET /" /\ Has(req[r].user) /\ Val(req[r].user).role # "admin") =>
              /\ router(req[r].route)[2] = Handler("requireRole", {"admin"})
              /\ pc[r] # "getALLUsers"
              /\ \/ pc[r] = "chain" /\ loc[r].idx = 2
                 \/ /\ Answered(r) /\ loc[r].idx = 2
                    /\ Is(resp[r], 403, "Forbidden", "Insufficient permissions")
                    /\ ~Has(resp[r].users)

C2_Witness ==
    \E r \in Slots :
        /\ Answered(r) /\ req[r].route = "GET /"
        /\ req[r].user = Some(Claim(1, "user"))
        /\ resp[r].status = 403

(***************************************************************************)
(* C3 as claimed.  A PUT /users/:id by an identity that is neither the     *)
(* target nor an admin is answered 403 whatever its body is.               *)
(***************************************************************************)
C3_AsClaimed ==
    \A r \in Slots :
        (req[r].route = "PUT /:id" /\ Stranger(r) /\ Answered(r)) =>
            resp[r].status = 403

(***************************************************************************)
(* C3.  A PUT /users/:id by an identity that is neither the target nor an  *)
(* admin never reaches the record service, so the store is not written; it *)
(* is answered 403 when its body passes the update schema and 400 when the *)
(* body does not, the body being validated before the identity is checked. *)
(***************************************************************************)
C3_StrangerUpdate ==
    \A r \in Slots :
        (req[r].route = "PUT /:id" /\ Stranger(r)) =>
            /\ Answered(r) /\ BodyRead(r)
            /\ IF updateUserSchema(Val(req[r].body)).success
               THEN Is(resp[r], 403, "Forbidden", "You can only update your own information")
               ELSE resp[r].status = 400

C3_Witness ==
    \E r \in Slots :
        /\ req[r].route = "PUT /:id" /\ Stranger(r) /\ Answered(r)
        /\ req[r].user = Some(Claim(1, "user")) /\ Target(r) = 2
        /\ Val(req[r].body).name = Some(NameStr(0, 2, 0))
        /\ resp[r].status = 403

(***************************************************************************)
(* C4.  A PUT /users/:id whose validated body has a role and whose         *)
(* identity is no admin is answered 403 and never reaches the record       *)
(* service, also when the identity is the target itself.                   *)
(***************************************************************************)
C4_RoleChangeNeedsAdmin ==
    \A r \in Slots :
        (/\ req[r].route = "PUT /:id" /\ BodyRead(r)
         /\ updateUserSchema(Val(req[r].body)).success
         /\ Has(Val(req[r].body).role)
         /\ Val(req[r].user).role # "admin") =>
            /\ Answered(r)
            /\ resp[r].status = 403 /\ resp[r].error = "Forbidden"
            /\ Val(req[r].user).id = Target(r) =>
                  resp[r].message = "Only admin users can change user roles"

C4_Witness ==
    \E r \in Slots :
        /\ req[r].route = "PUT /:id" /\ Answered(r)
        /\ req[r].user = Some(Claim(1, "user")) /\ Target(r) = 1
        /\ Val(req[r].body) = Body(Absent, Absent, Some("admin"), FALSE)
        /\ resp[r].status = 403

(***************************************************************************)
(* C5.  A DELETE /users/:id with a positive integer id by an identity that *)
(* is neither the target nor an admin is answered 403 and never reaches    *)
(* the record service; the target itself and an admin pass the check and   *)
(* reach it.                                                               *)
(***************************************************************************)
C5_DeleteOwnership ==
    \A r \in Slots :
        (req[r].route = "DELETE /:id" /\ TargetOk(r)) =>
            IF Stranger(r)
            THEN /\ Answered(r)
                 /\ Is(resp[r], 403, "Forbidden", "You can only delete your own account")
            ELSE /\ loc[r].id = Target(r)
                 /\ \/ pc[r] \in {"getUserById", "delete"}
                    \/ Answered(r) /\ resp[r].status \in {200, 404}

C5_Witness ==
    \E r \in Slots :
        /\ req[r].route = "DELETE /:id" /\ Answered(r)
        /\ req[r].user = Some(Claim(1, "user")) /\ Target(r) = 2
        /\ resp[r].status = 403
        /\ \E row \in store : row.id = 2

\* the request in slot r is answered by this step
Answering(r) == pc[r] # "done" /\ pc'[r] = "done"

HasRow(tbl, id) == \E row \in tbl : row.id = id
RowOf(tbl, id) == CHOOSE row \in tbl : row.id = id

\* a PUT by user 1 on its own record whose body holds just this name
OwnNameUpdate(r, name) ==
    /\ req[r].route = "PUT /:id"
    /\ req[r].user = Some(Claim(1, "user"))
    /\ TargetOk(r) /\ Target(r) = 1
    /\ req[r].body = Some(Body(Some(name), Absent, Absent, FALSE))

(***************************************************************************)
(* C6 as claimed.  User 1 (role user) calling PUT /users/1 with body       *)
(* {name: "X"} on its existing record is answered 200 with the record, its *)
(* name "X" and its updated_at later than before.                          *)
(***************************************************************************)
C6_AsClaimed ==
    [][\A r \in Slots :
          (Answering(r) /\ OwnNameUpdate(r, NameStr(0, 1, 0))' /\ HasRow(store, 1)) =>
              /\ resp'[r].status = 200
              /\ Has(resp'[r].user)
              /\ Val(resp'[r].user).name = NameStr(0, 1, 0)
              /\ Val(resp'[r].user).updated_at > RowOf(store, 1).updated_at]_vars

(***************************************************************************)
(* C6.  User 1 (role user) calling PUT /users/1 with a body that holds     *)
(* only a name of 2 to 255 characters, on its existing record and with no  *)
(* other request in flight, is answered 200 with the updated record: its   *)
(* name is the supplied name trimmed, and its updated_at is the time the   *)
(* service read during the call, which is not earlier than the value       *)
(* before.                                                                 *)
(***************************************************************************)
C6_OwnNameUpdate ==
    [][\A r \in Slots : \A name \in {Val(n) : n \in BodyNames \ {Absent}} :
          (/\ Answering(r) /\ OwnNameUpdate(r, name)' /\ HasRow(store, 1)
           /\ StrLen(name) >= NameMin /\ StrLen(name) <= NameMax) =>
              /\ resp'[r].status = 200
              /\ HasRow(store', 1)
              /\ resp'[r].user = Some(SelectColumns(RowOf(store', 1)))
              /\ RowOf(store', 1).name = Trim(name)
              /\ RowOf(store', 1).updated_at = loc[r].updated_at
              /\ loc[r].updated_at <= now
              /\ RowOf(store', 1).updated_at >= RowOf(store, 1).updated_at
              /\ [RowOf(store', 1) EXCEPT !.name = InitName, !.updated_at = 0]
                    = [RowOf(store, 1) EXCEPT !.name = InitName, !.updated_at = 0]]_vars

C6_Witness ==
    \E r \in Slots :
        /\ Answered(r) /\ OwnNameUpdate(r, NameStr(0, 2, 0))
        /\ resp[r].status = 200
        /\ Val(resp[r].user).name = NameStr(0, 2, 0)
        /\ Val(resp[r].user).updated_at = 1
        /\ Val(resp[r].user).created_at = 0

(***************************************************************************)
(* C7.  getUserById fails with 'User not found' for every id that has no   *)
(* row, and a GET, PUT or DELETE /users/:id that passed validation and     *)
(* authorization and whose id has no row when its existence check runs is  *)
(* answered 404 'User not found / The requested user does not exist',      *)
(* never 200, and writes nothing.                                          *)
(***************************************************************************)
C7_NotFound ==
    /\ [](\A id \in Ids :
            ~HasRow(store, id) => getUserById(store, id) = Throw("User not found"))
    /\ [][\A r \in Slots :
            /\ (/\ pc[r] = "getUserById" /\ pc'[r] # "getUserById"
                /\ ~HasRow(store, loc[r].id)) =>
                   /\ pc'[r] = "done" /\ resp'[r] = NotFoundRes /\ store' = store
            /\ (/\ Answering(r) /\ pc[r] \in {"chain", "getUserById"}
                /\ ById(r)' /\ TargetOk(r)'
                /\ ~HasRow(store, Target(r)')
                /\ resp'[r].status \notin {400, 401, 403}) =>
                   /\ pc[r] = "getUserById"
                   /\ resp'[r] = NotFoundRes /\ store' = store]_vars

C7_Witness ==
    \E r \in Slots :
        /\ Answered(r) /\ req[r].route = "PUT /:id"
        /\ req[r].user = Some(Claim(2, "admin")) /\ TargetOk(r) /\ Target(r) = 1
        /\ ~HasRow(store, 1) /\ HasRow(store, 2)
        /\ resp[r] = NotFoundRes

\* the request in slot r is a DELETE that removed the record with this id
Deleted(r, id) ==
    /\ Answered(r) /\ req[r].route = "DELETE /:id"
    /\ resp[r].status = 200
    /\ Has(resp[r].user) /\ Val(resp[r].user).id = id

\* the identity of the request is the target or an admin
Authorized(r) ==
    /\ Has(req[r].user) /\ TargetOk(r)
    /\ Val(req[r].user).id = Target(r) \/ Val(req[r].user).role = "admin"

(***************************************************************************)
(* C8.  Once a DELETE /users/:id has removed a record and been answered,  *)
(* a second DELETE of the same id by its owner or an admin (one that had   *)
(* not yet sent its delete statement) is answered 404; the record is gone  *)
(* from the store for good, and no list or get-by-id answered afterwards   *)
(* returns it.                                                             *)
(***************************************************************************)
C8_DeleteTwice ==
    /\ [](\A r \in Slots, id \in Ids : Deleted(r, id) => ~HasRow(store, id))
    /\ [][/\ \A id \in Ids : ~HasRow(store, id) => ~HasRow(store', id)
          /\ \A r1 \in Slots, r2 \in Slots, id \in Ids :
                (r1 # r2 /\ Deleted(r1, id) /\ Answering(r2)) =>
                   /\ (/\ req'[r2].route = "DELETE /:id" /\ Authorized(r2)'
                       /\ Target(r2)' = id /\ pc[r2] \in {"chain", "getUserById"}) =>
                          resp'[r2] = NotFoundRes
                   /\ (req'[r2].route = "GET /:id" /\ TargetOk(r2)' /\ Target(r2)' = id) =>
                          resp'[r2] = NotFoundRes
                   /\ (req'[r2].route = "GET /" /\ resp'[r2].status = 200) =>
                          \A u \in Val(resp'[r2].users) : u.id # id
          /\ \A r \in Slots :
                (Answering(r) /\ resp'[r].status = 200) =>
                   /\ req'[r].route = "GET /:id" =>
                          HasRow(store, Val(resp'[r].user).id)
                   /\ req'[r].route = "GET /" =>
                          \A u \in Val(resp'[r].users) : HasRow(store, u.id)]_vars

C8_Witness ==
    \E r1 \in Slots, r2 \in Slots :
        /\ r1 # r2 /\ Deleted(r1, 1)
        /\ Answered(r2) /\ req[r2].route = "DELETE /:id"
        /\ Authorized(r2) /\ Target(r2) = 1
        /\ resp[r2] = NotFoundRes

\* the identifier schema on every path parameter
C9_Schema ==
    \A p \in Params :
        LET n == JSNumber(p)
            v == userIdSchema([id |-> p])
        IN  /\ (n.nan \/ n.twice % 2 # 0 \/ n.twice <= 0) => ~v.success /\ v.issues # <<>>
            /\ v.success => v.data.id \in Nat \ {0} /\ 2 * v.data.id = n.twice

(***************************************************************************)
(* C9.  The identifier schema rejects every path parameter that is no      *)
(* number, no integer or not above 0, and each by-id route answers such a  *)
(* request 400 without calling the record service; an id that reaches the  *)
(* record service is the positive integer the parameter denotes.           *)
(***************************************************************************)
C9_IdentifierValidation ==
    /\ C9_Schema
    /\ \A r \in Slots :
          /\ (ParamRead(r) /\ ~TargetOk(r)) =>
                /\ ById(r) /\ Answered(r)
                /\ resp[r].status = 400 /\ resp[r].error = "Validation failed"
                /\ Has(resp[r].details)
                /\ loc[r].id = 0
          /\ (ById(r) /\ (InService(r) \/ (Answered(r) /\ resp[r].status \in {200, 404, 500}))) =>
                /\ TargetOk(r)
                /\ loc[r].id = Target(r) /\ loc[r].id \in Nat \ {0}

C9_Witness ==
    \E r \in Slots :
        /\ Answered(r) /\ req[r].route = "GET /:id"
        /\ req[r].params = Some([id |-> "0"])
        /\ resp[r].status = 400

NoField(body) == ~Has(body.name) /\ ~Has(body.email) /\ ~Has(body.role)

AtLeastOne == <<Issue("", "At least one field must be provided for update")>>

\* the update schema on every body
C10_Schema ==
    \A b \in Bodies :
        LET v == updateUserSchema(b)
        IN  /\ NoField(b) => ~v.success /\ v.issues = AtLeastOne
            /\ v.success => ~NoField(b) /\ AtLeastOneField(v.data)

(***************************************************************************)
(* C10.  The update schema rejects every body that has none of name, email *)
(* and role (also one that holds only fields it does not know) with 'At    *)
(* least one field must be provided for update', and PUT /users/:id        *)
(* answers it 400; every body the schema accepts has one of the three.     *)
(***************************************************************************)
C10_AtLeastOneField ==
    /\ C10_Schema
    /\ \A r \in Slots :
          /\ (BodyRead(r) /\ NoField(Val(req[r].body))) =>
                /\ req[r].route = "PUT /:id" /\ Answered(r)
                /\ resp[r].status = 400 /\ resp[r].error = "Validation failed"
                /\ resp[r].details = Some(formatValidationError(AtLeastOne))
          /\ (req[r].route = "PUT /:id" /\ pc[r] \in {"getUserById", "update"}) =>
                /\ BodyRead(r) /\ ~NoField(Val(req[r].body))
                /\ AtLeastOneField(loc[r].updates)

C10_Witness ==
    \E r \in Slots :
        /\ Answered(r) /\ req[r].route = "PUT /:id"
        /\ req[r].body = Some(Body(Absent, Absent, Absent, TRUE))
        /\ resp[r].status = 400

\* "  Foo@Bar.COM " and "foo@bar.com"
PaddedMixedCase == EmailStr(2, 1, TRUE, "foo@bar.com")
Normalised == EmailStr(0, 0, FALSE, "foo@bar.com")

\* an email with no surrounding whitespace and no upper-case letter
IsNormalised(e) == e.lead = 0 /\ e.trail = 0 /\ ~e.upper

(***************************************************************************)
(* C11 as claimed.  A PUT /users/:id by the target or an admin whose body  *)
(* holds just the email "  Foo@Bar.COM ", on an existing record and with   *)
(* no other record holding "foo@bar.com", is answered 200 and the record's *)
(* email is then "foo@bar.com"; and every email in the store is trimmed    *)
(* and lower-case.                                                         *)
(***************************************************************************)
C11_AsClaimed ==
    /\ \A row \in store : IsNormalised(row.email)
    /\ \A r \in Slots :
          (/\ Answered(r) /\ req[r].route = "PUT /:id" /\ Authorized(r)
           /\ req[r].body = Some(Body(Absent, Some(PaddedMixedCase), Absent, FALSE))
           /\ HasRow(store, Target(r))
           /\ \A row \in store : row.id # Target(r) => row.email # Normalised) =>
              /\ resp[r].status = 200
              /\ RowOf(store, Target(r)).email = Normalised

\* the columns of a read or update result, and of a delete result
ReadColumns == {"id", "email", "name", "role", "created_at", "updated_at"}
DeleteResultColumns == {"id", "email", "name", "role"}

(***************************************************************************)
(* C12.  No result of the record service carries the password column, and  *)
(* so no 200 response of a /users route does: what getALLUsers,            *)
(* getUserById and updateUser return has exactly the columns id, email,    *)
(* name, role, created_at, updated_at, what deleteUser returns exactly id, *)
(* email, name, role, while every stored row has a password.               *)
(***************************************************************************)
C12_NoPassword ==
    /\ \A row \in store : "password" \in DOMAIN row
    /\ \A u \in getALLUsers(store) : DOMAIN u = ReadColumns
    /\ \A id \in Ids :
          LET got == getUserById(store, id)
              upd == updateUser(store, id, UpdateData(NoUpdates, now))
              del == deleteUser(store, id)
          IN  /\ Has(got.user) => DOMAIN Val(got.user) = ReadColumns
              /\ Has(upd.first) => DOMAIN Val(upd.first) = ReadColumns
              /\ Has(del.first) => DOMAIN Val(del.first) = DeleteResultColumns
    /\ \A r \in Slots :
          (Answered(r) /\ resp[r].status = 200) =>
              /\ Has(resp[r].users) =>
                    \A u \in Val(resp[r].users) : DOMAIN u = ReadColumns
              /\ Has(resp[r].user) =>
                    DOMAIN Val(resp[r].user) =
                        IF req[r].route = "DELETE /:id" THEN DeleteResultColumns
                        ELSE ReadColumns

C12_Witness ==
    \E r \in Slots :
        /\ Answered(r) /\ req[r].route = "GET /" /\ resp[r].status = 200
        /\ Cardinality(Val(resp[r].users)) = 2
        /\ \A row \in store : row.password = "hash"

\* the keys of the JSON body of a response
Keys(res) ==
    {k \in {"error", "message"} : res[k] # ""}
    \cup {k \in {"details", "user", "users"} : Has(res[k])}
    \cup (IF Has(res.users) THEN {"count"} ELSE {})

\* the issues of the validation the request failed, if it failed one
FailedIssues(r) ==
    IF ~TargetOk(r) THEN userIdSchema(Val(req[r].params)).issues
    ELSE IF req[r].route = "PUT /:id" /\ BodyRead(r)
    THEN updateUserSchema(Val(req[r].body)).issues
    ELSE <<>>

(***************************************************************************)
(* C13 as claimed.  A request whose path parameter or body fails its       *)
(* schema is answered 400, and the body of the answer holds the joined     *)
(* messages of the issues and, beside them, the list of the issues as      *)
(* (field, message) pairs.                                                 *)
(***************************************************************************)
C13_AsClaimed ==
    \A r \in Slots :
        (Answered(r) /\ ParamRead(r) /\ FailedIssues(r) # <<>>) =>
            /\ resp[r].status = 400
            /\ resp[r].details = Some(formatValidationError(FailedIssues(r)))
            /\ Keys(resp[r]) \ {"error", "details"} # {}

\* the first step of the pipeline the request fails, from what it carries:
\* authentication, the role guard (list route), the identifier, the body
\* (update), the ownership (update, delete), the role change (update)
FailedStep(r) ==
    IF req[r].token.kind # "signed" THEN "authentication"
    ELSE IF req[r].route = "GET /"
    THEN (IF Val(req[r].token.claim).role # "admin" THEN "role guard" ELSE "none")
    ELSE IF ~TargetOk(r) THEN "identifier"
    ELSE IF req[r].route = "PUT /:id" /\ ~updateUserSchema(Val(req[r].body)).success
    THEN "body"
    ELSE IF req[r].route \in {"PUT /:id", "DELETE /:id"} /\ Stranger(r)
    THEN "ownership"
    ELSE IF /\ req[r].route = "PUT /:id" /\ Has(Val(req[r].body).role)
            /\ Val(req[r].user).role # "admin"
    THEN "role change"
    ELSE "none"

\* no controller has called the record service for the request
NotCalled(r) == loc[r].id = 0 /\ ~Has(resp[r].user) /\ ~Has(resp[r].users)

(***************************************************************************)
(* C14.  A request is answered by the first step it fails, in the order    *)
(* authentication (401), role guard on the list route (403), identifier    *)
(* (400), body of an update (400), ownership of an update or delete (403), *)
(* role change of an update (403), and then nothing later has run: the path*)
(* parameter is not read behind a failed authentication or guard, the body *)
(* not behind a failed identifier, the record service is not called.  The  *)
(* record service is called only for a request that fails none of them; it *)
(* answers 404 when the record is absent.  An answered request does        *)
(* nothing more.                                                           *)
(***************************************************************************)
C14_Pipeline ==
    /\ [](\A r \in Slots :
            /\ InService(r) => FailedStep(r) = "none"
            /\ Answered(r) =>
                  LET s == FailedStep(r)
                  IN  /\ s = "authentication" =>
                            /\ resp[r].status = 401 /\ loc[r].idx = 1
                            /\ ~ParamRead(r) /\ ~BodyRead(r) /\ NotCalled(r)
                      /\ s = "role guard" =>
                            /\ Is(resp[r], 403, "Forbidden", "Insufficient permissions")
                            /\ loc[r].idx = 2 /\ NotCalled(r)
                      /\ s = "identifier" =>
                            /\ resp[r].status = 400
                            /\ ~BodyRead(r) /\ NotCalled(r)
                      /\ s = "body" => resp[r].status = 400 /\ NotCalled(r)
                      /\ s = "ownership" =>
                            /\ resp[r].status = 403 /\ NotCalled(r)
                            /\ resp[r].message =
                                  IF req[r].route = "PUT /:id"
                                  THEN "You can only update your own information"
                                  ELSE "You can only delete your own account"
                      /\ s = "role change" =>
                            /\ Is(resp[r], 403, "Forbidden",
                                  "Only admin users can change user roles")
                            /\ NotCalled(r)
                      /\ s = "none" =>
                            /\ resp[r].status \in {200, 404, 500}
                            /\ ById(r) => loc[r].id = Target(r)
                            /\ resp[r].status = 404 =>
                                  resp[r] = NotFoundRes /\ ~HasRow(store, Target(r))
                            /\ resp[r].status = 500 =>
                                  req[r].route = "PUT /:id" /\ Has(Val(req[r].body).email))
    /\ [][\A r \in Slots :
            Answered(r) => /\ pc'[r] \in {"done", "idle"}
                           /\ pc'[r] = "done" => req'[r] = req[r] /\ resp'[r] = resp[r]
                           /\ store' = store]_vars

C14_Witness ==
    \E r \in Slots :
        /\ Answered(r) /\ req[r].route = "PUT /:id"
        /\ req[r].user = Some(Claim(1, "user")) /\ Target(r) = 2
        /\ req[r].body = Some(Body(Absent, Absent, Some("root"), FALSE))
        /\ resp[r].status = 400

\* the prior record with each supplied field of the body overwritten by its
\* validated value (the name trimmed, the email lower-cased and trimmed) and
\* updated_at set to t
Merged(prior, body, t) ==
    [prior EXCEPT
        !.name = IF Has(body.name) THEN Trim(Val(body.name)) ELSE @,
        !.email = IF Has(body.email) THEN TrimEmail(ToLowerCase(Val(body.email))) ELSE @,
        !.role = IF Has(body.role) THEN Val(body.role) ELSE @,
        !.updated_at = t]

(***************************************************************************)
(* C15.  An update that is answered 200 and whose record is in the store   *)
(* when it writes replaces that record by the record with each supplied    *)
(* field overwritten by its validated value, every other field kept and    *)
(* updated_at set to the time the service read during the call, and        *)
(* returns the columns of the new record; updated_at is set also when the  *)
(* supplied values equal the stored ones.                                  *)
(***************************************************************************)
C15_Update ==
    [][\A r \in Slots :
          /\ (pc[r] = "getUserById" /\ pc'[r] = "update") => loc'[r].updated_at = now
          /\ (/\ Answering(r) /\ req[r].route = "PUT /:id" /\ resp'[r].status = 200
              /\ HasRow(store, loc[r].id)) =>
                LET prior == RowOf(store, loc[r].id)
                    after == Merged(prior, Val(req[r].body), loc[r].updated_at)
                IN  /\ loc[r].id = Target(r)
                    /\ loc[r].updated_at <= now
                    /\ store' = (store \ {prior}) \cup {after}
                    /\ resp'[r].user = Some(SelectColumns(after))]_vars

\* an admin sets the role of record 1 to the role it has: only updated_at moves
C15_Witness ==
    \E r \in Slots :
        /\ Answered(r) /\ req[r].route = "PUT /:id" /\ resp[r].status = 200
        /\ Target(r) = 1
        /\ req[r].body = Some(Body(Absent, Absent, Some("user"), FALSE))
        /\ store = {[users(1, "user") EXCEPT !.updated_at = 1], users(2, "admin")}
        /\ resp[r].user = Some(SelectColumns([users(1, "user") EXCEPT !.updated_at = 1]))

\* the update schema accepts no role outside the enumeration
C16_Schema ==
    \A b \in Bodies :
        LET v == updateUserSchema(b)
        IN  (v.success /\ Has(b.role)) =>
                v.data.role = b.role /\ Val(b.role) \in Roles

(***************************************************************************)
(* C16.  Every stored record's role is user or admin, initially and after  *)
(* any sequence of list, get, update and delete requests: the update       *)
(* schema accepts no other role, and the role of a record changes only in  *)
(* the write of an update whose validated body holds a role, to that role. *)
(***************************************************************************)
C16_RoleEnumerated ==
    /\ [](C16_Schema /\ \A row \in store : row.role \in Roles)
    /\ [][\A id \in Ids :
            (/\ HasRow(store, id) /\ HasRow(store', id)
             /\ RowOf(store', id).role # RowOf(store, id).role) =>
                \E r \in Slots :
                    /\ pc[r] = "update" /\ Answering(r) /\ loc[r].id = id
                    /\ Val(req[r].body).role = Some(RowOf(store', id).role)]_vars

C16_Witness ==
    \E r \in Slots :
        /\ Answered(r) /\ req[r].route = "PUT /:id" /\ resp[r].status = 200
        /\ Target(r) = 1 /\ Val(req[r].body).role = Some("admin")
        /\ HasRow(store, 1) /\ RowOf(store, 1).role = "admin"

(***************************************************************************)
(* C17 as claimed.  Every stored name is trimmed and has 2 to 255          *)
(* characters, and a PUT /users/:id by the target or an admin whose body   *)
(* holds just a name of fewer than 2 characters after trimming is answered *)
(* 400.                                                                    *)
(***************************************************************************)
C17_AsClaimed ==
    /\ \A row \in store :
          /\ row.name = Trim(row.name)
          /\ StrLen(row.name) >= NameMin /\ StrLen(row.name) <= NameMax
    /\ \A r \in Slots :
          (/\ Answered(r) /\ req[r].route = "PUT /:id" /\ Authorized(r) /\ BodyRead(r)
           /\ Has(Val(req[r].body).name)
           /\ ~Has(Val(req[r].body).email) /\ ~Has(Val(req[r].body).role)
           /\ StrLen(Trim(Val(Val(req[r].body).name))) < NameMin) =>
              resp[r].status = 400

\* the request in slot r is a PUT or DELETE that was answered 200
Written(r) ==
    /\ Answered(r) /\ req[r].route \in {"PUT /:id", "DELETE /:id"}
    /\ resp[r].status = 200

(***************************************************************************)
(* C18 as claimed.  With requests interleaved at their store round trips,  *)
(* every 200 answer of a PUT or DELETE /users/:id carries the record its   *)
(* write affected (the user field is present and has the id of the         *)
(* request), and no two deletes of one record are both answered 200.       *)
(***************************************************************************)
C18_AsClaimed ==
    /\ \A r \in Slots :
          Written(r) => Has(resp[r].user) /\ Val(resp[r].user).id = loc[r].id
    /\ \A r1 \in Slots, r2 \in Slots :
          (/\ r1 # r2 /\ Written(r1) /\ Written(r2)
           /\ req[r1].route = "DELETE /:id" /\ req[r2].route = "DELETE /:id") =>
              loc[r1].id # loc[r2].id

\* the claim of the token of the request in slot r
ClaimOf(r) == Val(req[r].token.claim)

\* the record with this id is changed or removed by the step
Touched(id) ==
    HasRow(store, id) /\ (~HasRow(store', id) \/ RowOf(store', id) # RowOf(store, id))

RoleChanged(id) ==
    HasRow(store, id) /\ HasRow(store', id) /\ RowOf(store', id).role # RowOf(store, id).role

\* the step is a step of the request in slot r
StepOf(r) == pc'[r] # pc[r] \/ req'[r] # req[r] \/ loc'[r] # loc[r]

(***************************************************************************)
(* C19.  Under every interleaving of requests, the role of a stored record *)
(* changes only in the write of a PUT whose token claim has role admin,    *)
(* and a record is changed or removed only in the write of a PUT or DELETE *)
(* whose claim has role admin or the id of the record; no step of a        *)
(* request whose claim has role user changes a role or touches a record of *)
(* another id.                                                             *)
(***************************************************************************)
C19_NoEscalation ==
    [][/\ \A id \in Ids :
            /\ RoleChanged(id) =>
                  \E r \in Slots :
                      /\ pc[r] = "update" /\ Answering(r) /\ req[r].route = "PUT /:id"
                      /\ loc[r].id = id /\ ClaimOf(r).role = "admin"
            /\ Touched(id) =>
                  \E r \in Slots :
                      /\ pc[r] \in {"update", "delete"} /\ Answering(r)
                      /\ req[r].route \in {"PUT /:id", "DELETE /:id"}
                      /\ loc[r].id = id
                      /\ ClaimOf(r).role = "admin" \/ ClaimOf(r).id = id
       /\ \A r \in Slots :
            (/\ StepOf(r) /\ req[r].token.kind = "signed"
             /\ ClaimOf(r).role = "user") =>
                \A id \in Ids :
                    /\ ~RoleChanged(id)
                    /\ id # ClaimOf(r).id => ~Touched(id)]_vars

\* an admin has made record 1 an admin while an identity of role user that is
\* not its owner was refused its delete
C19_Witness ==
    \E r1 \in Slots, r2 \in Slots :
        /\ Answered(r1) /\ req[r1].route = "PUT /:id" /\ resp[r1].status = 200
        /\ ClaimOf(r1) = Claim(2, "admin") /\ Target(r1) = 1
        /\ HasRow(store, 1) /\ RowOf(store, 1).role = "admin"
        /\ Answered(r2) /\ req[r2].route = "DELETE /:id" /\ resp[r2].status = 403
        /\ ClaimOf(r2) = Claim(2, "user") /\ Target(r2) = 1

(***************************************************************************)
(* C20.  A PUT /users/:id changes the store in its update statement only,  *)
(* and that statement leaves the id, the password and created_at of its    *)
(* target as they were, leaves every other record as it was, and creates   *)
(* and removes no record; what the body holds beside name, email and role  *)
(* (an id, a password) is not written.                                     *)
(***************************************************************************)
C20_UpdateFrame ==
    [][\A r \in Slots :
          (StepOf(r) /\ req[r].route = "PUT /:id") =>
              IF pc[r] = "update"
              THEN /\ {row.id : row \in store'} = {row.id : row \in store}
                   /\ Cardinality(store') = Cardinality(store)
                   /\ \A row \in store : row.id # loc[r].id => row \in store'
                   /\ HasRow(store, loc[r].id) =>
                         LET prior == RowOf(store, loc[r].id)
                             after == RowOf(store', loc[r].id)
                         IN  /\ after.id = prior.id
                             /\ after.password = prior.password
                             /\ after.created_at = prior.created_at
              ELSE store' = store]_vars

\* an update whose body also holds an id and a password has set the name of
\* record 1 and nothing else but updated_at
C20_Witness ==
    \E r \in Slots :
        /\ Answered(r) /\ req[r].route = "PUT /:id" /\ resp[r].status = 200
        /\ Target(r) = 1
        /\ req[r].body = Some(Body(Some(NameStr(0, 2, 0)), Absent, Absent, TRUE))
        /\ store = {[users(1, "user") EXCEPT !.name = NameStr(0, 2, 0),
                                             !.updated_at = 1],
                    users(2, "admin")}

(***************************************************************************)
(* C21.  The store changes only in the step that answers a PUT or DELETE   *)
(* /users/:id with 200.  No step of a list or get-by-id request changes    *)
(* it, whatever the answer, and no step of a request that is answered 400, *)
(* 401, 403 or 404 (or 500) does: such a request leaves the store exactly  *)
(* as it was.                                                              *)
(***************************************************************************)
C21_WriteOnlyOn200 ==
    [][/\ store' # store =>
             \E r \in Slots :
                 /\ Answering(r) /\ resp'[r].status = 200
                 /\ req[r].route \in {"PUT /:id", "DELETE /:id"}
       /\ \A r \in Slots :
             (/\ StepOf(r)
              /\ \/ req[r].route \in {"GET /", "GET /:id"}
                 \/ ~Answering(r)
                 \/ resp'[r].status \in {400, 401, 403, 404, 500}) =>
                 store' = store]_vars

\* after a delete of record 1, an update of it by an admin has been answered
\* 404 and the store holds record 2 as it was, and nothing else
C21_Witness ==
    \E r \in Slots :
        /\ Answered(r) /\ req[r].route = "PUT /:id" /\ resp[r] = NotFoundRes
        /\ ClaimOf(r) = Claim(2, "admin") /\ Target(r) = 1
        /\ Val(req[r].body).role = Some("admin")
        /\ store = {users(2, "admin")}

\* the request in slot r is a PUT that was answered 200 with the record it wrote
Updated(r) == Written(r) /\ req[r].route = "PUT /:id" /\ Has(resp[r].user)

\* two bodies supply no field in common
Disjoint(b1, b2) ==
    /\ ~(Has(b1.name) /\ Has(b2.name))
    /\ ~(Has(b1.email) /\ Has(b2.email))
    /\ ~(Has(b1.role) /\ Has(b2.role))

\* the record holds the validated value of every field the body supplies
Carries(row, body) ==
    /\ Has(body.name) => row.name = Trim(Val(body.name))
    /\ Has(body.email) => row.email = TrimEmail(ToLowerCase(Val(body.email)))
    /\ Has(body.role) => row.role = Val(body.role)

(***************************************************************************)
(* C22.  When two updates of one record that supply disjoint fields have   *)
(* both been answered 200 with the record, however their store round trips *)
(* interleaved, the stored record holds the new values of both: neither    *)
(* write has undone the other's change.                                    *)
(***************************************************************************)
C22_DisjointUpdates ==
    \A r1 \in Slots, r2 \in Slots :
        (/\ r1 # r2 /\ Updated(r1) /\ Updated(r2)
         /\ loc[r1].id = loc[r2].id
         /\ Disjoint(Val(req[r1].body), Val(req[r2].body))) =>
            /\ HasRow(store, loc[r1].id)
            /\ Carries(RowOf(store, loc[r1].id), Val(req[r1].body))
            /\ Carries(RowOf(store, loc[r1].id), Val(req[r2].body))

\* a name update and an email update of record 1 have overlapped: the email
\* update read the clock first and wrote last, on top of the new name
C22_Witness ==
    \E r1 \in Slots, r2 \in Slots :
        /\ r1 # r2 /\ Updated(r1) /\ Updated(r2)
        /\ Val(req[r1].body) = Body(Some(NameStr(0, 2, 0)), Absent, Absent, FALSE)
        /\ Val(req[r2].body) =
              Body(Absent, Some(EmailStr(0, 0, TRUE, "foo@bar.com")), Absent, FALSE)
        /\ Val(resp[r1].user).updated_at = 1 /\ Val(resp[r1].user).email = InitEmail(1)
        /\ Val(resp[r2].user).updated_at = 0 /\ Val(resp[r2].user).name = NameStr(0, 2, 0)
        /\ RowOf(store, 1).name = NameStr(0, 2, 0)
        /\ RowOf(store, 1).email = Normalised

====
